---------------------------- MODULE Spec2Model ----------------------------
(***************************************************************************)
(* Model of the f451-sensors configuration resolver, sensor registry and   *)
(* command line harness (src/f451_sensors/__main__.py, sensors.py).        *)
(*                                                                         *)
(* A Python string is a finite sequence of atoms: an atom is one of the    *)
(* delimiter characters, a blank, or an indivisible run of other           *)
(* characters ("f451_temperature", "temp", ...).  A Python value is a      *)
(* tagged record [t, v].                                                   *)
(***************************************************************************)
EXTENDS Integers, Sequences, FiniteSets, TLC

(***************************************************************************)
(* Bounds of the model.                                                    *)
(***************************************************************************)
MaxStrLen == 3
MaxListLen == 2
MaxPaths == 3
MaxRetry == 4
MaxIter == 3

(***************************************************************************)
(* constants.py                                                            *)
(***************************************************************************)
DELIM_STD == "|"
DELIM_VAL == ":"
SENSOR_ALL == <<"all">>
SENSOR_MAIN == <<"f451_main">>
SENSOR_TEMP == <<"f451_temperature">>
SENSOR_HUMID == <<"f451_humidity">>
SENSOR_WIND == <<"f451_wind">>
SENSOR_RAIN == <<"f451_rain">>
SENSOR_SPEED == <<"f451_speed">>
KWD_SENSORS == <<"sensors">>
KWD_SENSOR_MAP == <<"sensor_map">>

(***************************************************************************)
(* Python values.                                                          *)
(***************************************************************************)
None == [t |-> "None", v |-> <<>>]
Str(s) == [t |-> "str", v |-> s]
PyInt(n) == [t |-> "int", v |-> n]
Bool(b) == [t |-> "bool", v |-> b]
List(l) == [t |-> "list", v |-> l]
Raise(e) == [t |-> "raise", v |-> e]

\* bool(x) of a Python value
Truthy(x) ==
  CASE x.t = "None" -> FALSE
    [] x.t = "str" -> x.v # <<>>
    [] x.t = "int" -> x.v # 0
    [] x.t = "bool" -> x.v
    [] x.t = "list" -> x.v # <<>>
    [] x.t = "dict" -> DOMAIN x.v # {}
    [] OTHER -> TRUE

isinstance_str(x) == x.t = "str"

\* str.split(sep) for a one-character separator: always at least one part
RECURSIVE split(_, _)
split(s, sep) ==
  IF \E i \in DOMAIN s : s[i] = sep
  THEN LET i == CHOOSE j \in DOMAIN s :
                  s[j] = sep /\ \A k \in 1..(j - 1) : s[k] # sep
       IN <<SubSeq(s, 1, i - 1)>> \o split(SubSeq(s, i + 1, Len(s)), sep)
  ELSE <<s>>

\* str.strip(): drop leading and trailing blanks
RECURSIVE strip(_)
strip(s) ==
  IF s = <<>> THEN s
  ELSE IF Head(s) = " " THEN strip(Tail(s))
  ELSE IF s[Len(s)] = " " THEN strip(SubSeq(s, 1, Len(s) - 1))
  ELSE s

\* str.strip("/") as used on file names
RECURSIVE strip_slash(_)
strip_slash(s) ==
  IF s = <<>> THEN s
  ELSE IF Head(s) = "/" THEN strip_slash(Tail(s))
  ELSE IF s[Len(s)] = "/" THEN strip_slash(SubSeq(s, 1, Len(s) - 1))
  ELSE s

(***************************************************************************)
(* ConfigParser: a store maps the names of its sections to option dicts.   *)
(***************************************************************************)
EmptyStore == [s \in {} |-> [k \in {} |-> <<>>]]

has_section(settings, section) == section \in DOMAIN settings

(***************************************************************************)
(* ExtendedInterpolation.  A reference "${section:option}" is one atom; so *)
(* are the escape "$$" and a '$' followed by anything else ("$temp").      *)
(***************************************************************************)
MAX_INTERPOLATION_DEPTH == 10

ChainRef ==
  <<"${c:k1}", "${c:k2}", "${c:k3}", "${c:k4}", "${c:k5}", "${c:k6}",
    "${c:k7}", "${c:k8}", "${c:k9}", "${c:k10}", "${c:k11}">>
ChainKey ==
  << <<"k1">>, <<"k2">>, <<"k3">>, <<"k4">>, <<"k5">>, <<"k6">>,
     <<"k7">>, <<"k8">>, <<"k9">>, <<"k10">>, <<"k11">> >>

\* what _KEYCRE and path.split(':') make of a reference
RefTarget ==
  [a \in {ChainRef[i] : i \in DOMAIN ChainRef} |->
     <<(<<"c">>), ChainKey[CHOOSE i \in DOMAIN ChainRef : ChainRef[i] = a]>>]
  @@ ("${f451_main:sensors}" :> << <<"f451_main">>, <<"sensors">> >>)
  @@ ("${f451_main:sensor_map}" :> << <<"f451_main">>, <<"sensor_map">> >>)
  @@ ("${nosuch:key}" :> << <<"nosuch">>, <<"key">> >>)

DollarAtoms == (DOMAIN RefTarget) \cup {"$$", "$temp"}

\* "$" in v
has_dollar(v) == \E i \in DOMAIN v : v[i] \in DollarAtoms

\* before_get: the state of the interpolation of one value.  'stack' holds the
\* rest of the value of each active call of _interpolate_some, the innermost
\* last; 'accum' is the list L the result is joined from
interpolation_start(value) ==
  [status |-> "running", stack |-> <<value>>, accum |-> <<>>, error |-> ""]

InterpFailed(st, err) == [st EXCEPT !.status = "error", !.error = err]

\* a variant without the recursion limit: the referenced value takes the place
\* of the rest of the current one
_interpolate_some_nolimit(settings, st) ==
  LET d == Len(st.stack)
      rest == st.stack[d]
      pop == SubSeq(st.stack, 1, d - 1)
  IN IF rest = <<>> THEN
       IF d = 1 THEN [st EXCEPT !.status = "done", !.stack = <<>>]
       ELSE [st EXCEPT !.stack = pop]
     ELSE LET c == Head(rest)
              after == pop \o <<Tail(rest)>>
          IN IF c \notin DollarAtoms THEN
               [st EXCEPT !.accum = Append(@, c), !.stack = after]
             ELSE IF c = "$$" THEN
               [st EXCEPT !.accum = Append(@, "$"), !.stack = after]
             ELSE IF c \notin DOMAIN RefTarget THEN
               InterpFailed(st, "InterpolationSyntaxError")
             ELSE LET sect == RefTarget[c][1]
                      opt == RefTarget[c][2]
                  IN IF sect \notin DOMAIN settings \/ opt \notin DOMAIN settings[sect]
                     THEN InterpFailed(st, "InterpolationMissingOptionError")
                     ELSE LET v == settings[sect][opt]
                          IN IF has_dollar(v) THEN
                               IF d + 1 > MAX_INTERPOLATION_DEPTH
                               THEN [st EXCEPT !.stack = pop \o <<v>>]
                               ELSE [st EXCEPT !.stack = after \o <<v>>]
                             ELSE [st EXCEPT !.accum = @ \o v, !.stack = after]

\* one step of _interpolate_some: the next '$' of the rest is handled, or the
\* call returns
_interpolate_some(settings, st) ==
  LET d == Len(st.stack)
      rest == st.stack[d]
      pop == SubSeq(st.stack, 1, d - 1)
  IN IF rest = <<>> THEN
       IF d = 1 THEN [st EXCEPT !.status = "done", !.stack = <<>>]
       ELSE [st EXCEPT !.stack = pop]
     ELSE LET c == Head(rest)
              after == pop \o <<Tail(rest)>>
          IN IF c \notin DollarAtoms THEN
               [st EXCEPT !.accum = Append(@, c), !.stack = after]
             ELSE IF c = "$$" THEN
               [st EXCEPT !.accum = Append(@, "$"), !.stack = after]
             ELSE IF c \notin DOMAIN RefTarget THEN
               InterpFailed(st, "InterpolationSyntaxError")
             ELSE LET sect == RefTarget[c][1]
                      opt == RefTarget[c][2]
                  IN IF sect \notin DOMAIN settings \/ opt \notin DOMAIN settings[sect]
                     THEN InterpFailed(st, "InterpolationMissingOptionError")
                     ELSE LET v == settings[sect][opt]
                          IN IF has_dollar(v) THEN
                               IF d + 1 > MAX_INTERPOLATION_DEPTH
                               THEN InterpFailed(st, "InterpolationDepthError")
                               ELSE [st EXCEPT !.stack = after \o <<v>>]
                             ELSE [st EXCEPT !.accum = @ \o v, !.stack = after]

\* before_get: the steps of _interpolate_some up to its return, then ''.join(L)
RECURSIVE before_get_run(_, _)
before_get_run(settings, st) ==
  IF st.status = "running" THEN before_get_run(settings, _interpolate_some(settings, st))
  ELSE st

before_get(settings, value) ==
  LET st == before_get_run(settings, interpolation_start(value))
  IN IF st.status = "done" THEN Str(st.accum) ELSE Raise(st.error)

\* ConfigParser.get(section, option, fallback=...): the fallback stands in for
\* a missing section or option, not for a failed interpolation
get(settings, section, option, fallback) ==
  IF section \in DOMAIN settings /\ option \in DOMAIN settings[section]
  THEN before_get(settings, settings[section][option])
  ELSE Str(fallback)

\* a variant in which a value already stored is kept
read_keep_first(parser, content) ==
  [s \in (DOMAIN parser) \cup (DOMAIN content) |->
     [k \in (IF s \in DOMAIN parser THEN DOMAIN parser[s] ELSE {})
            \cup (IF s \in DOMAIN content THEN DOMAIN content[s] ELSE {}) |->
        IF s \in DOMAIN parser /\ k \in DOMAIN parser[s]
        THEN parser[s][k]
        ELSE content[s][k]]]

\* ConfigParser.read of one file whose parsed content is 'content':
\* option by option, the file's value replaces the stored one
read(parser, content) ==
  [s \in (DOMAIN parser) \cup (DOMAIN content) |->
     [k \in (IF s \in DOMAIN parser THEN DOMAIN parser[s] ELSE {})
            \cup (IF s \in DOMAIN content THEN DOMAIN content[s] ELSE {}) |->
        IF s \in DOMAIN content /\ k \in DOMAIN content[s]
        THEN content[s][k]
        ELSE parser[s][k]]]

(***************************************************************************)
(* utils.py, after its description in the specification                    *)
(***************************************************************************)
process_config(config, strict) == config

\* a dict built from a sequence of <<key, value>> pairs, the last one wins
RECURSIVE dict_of(_)
dict_of(pairs) ==
  IF pairs = <<>> THEN [k \in {} |-> <<>>]
  ELSE LET rest == dict_of(SubSeq(pairs, 1, Len(pairs) - 1))
           last == pairs[Len(pairs)]
       IN [k \in (DOMAIN rest) \cup {last[1]} |->
             IF k = last[1] THEN last[2] ELSE rest[k]]

process_key_value_map(inStr) ==
  IF inStr = <<>> THEN dict_of(<<>>)
  ELSE LET items == split(inStr, DELIM_STD)
           parts == [i \in DOMAIN items |-> split(items[i], DELIM_VAL)]
           wellFormed(p) == Len(p) = 2 /\ strip(p[1]) # <<>>
           good == SelectSeq(parts, wellFormed)
       IN dict_of([i \in DOMAIN good |-> <<strip(good[i][1]), strip(good[i][2])>>])

convert_attrib_str_to_list(inVal) ==
  IF inVal.t = "str" /\ inVal.v # <<>> THEN
    LET parts == split(inVal.v, DELIM_STD)
    IN [i \in DOMAIN parts |-> Str(parts[i])]
  ELSE <<>>

(***************************************************************************)
(* sensors.py: class Sensors.  'self' is the record of its attributes.     *)
(***************************************************************************)
_init_temperature(settings) ==
  IF ~has_section(settings, SENSOR_TEMP) THEN None ELSE None

_init_humidity(settings) ==
  IF ~has_section(settings, SENSOR_HUMID) THEN None ELSE None

_init_wind(settings) ==
  IF ~has_section(settings, SENSOR_WIND) THEN None ELSE None

_init_rain(settings) ==
  IF ~has_section(settings, SENSOR_RAIN) THEN None ELSE None

_init_speed(settings) ==
  IF ~has_section(settings, SENSOR_SPEED) THEN None ELSE None

\* @sensors.setter
sensors_setter(settings) ==
  [k \in {SENSOR_TEMP, SENSOR_HUMID, SENSOR_WIND, SENSOR_RAIN, SENSOR_SPEED} |->
     CASE k = SENSOR_TEMP -> _init_temperature(settings)
       [] k = SENSOR_HUMID -> _init_humidity(settings)
       [] k = SENSOR_WIND -> _init_wind(settings)
       [] k = SENSOR_RAIN -> _init_rain(settings)
       [] OTHER -> _init_speed(settings)]

\* the outcome of a setter that has assigned 'x' to its attribute
Assigned(x) == [t |-> "assigned", v |-> x]

\* @sensor_map.setter
sensor_map_setter(settings) ==
  LET value == get(settings, SENSOR_MAIN, KWD_SENSOR_MAP, <<>>)
  IN IF value.t = "raise" THEN value ELSE Assigned(process_key_value_map(value.v))

\* @default_sensors.setter
default_sensors_setter(settings) ==
  LET value == get(settings, SENSOR_MAIN, KWD_SENSORS, <<>>)
      parts == split(value.v, DELIM_STD)
  IN IF value.t = "raise" THEN value
     ELSE Assigned([i \in DOMAIN parts |-> Str(parts[i])])

\* Sensors.__init__: the new instance, or the exception of the first setter
\* that fails
Sensors(config) ==
  LET settings == process_config(config, FALSE)
      default == default_sensors_setter(settings)
      map == sensor_map_setter(settings)
  IN IF default.t = "raise" THEN default
     ELSE IF map.t = "raise" THEN map
     ELSE [_default_sensors |-> default.v,
           _sensor_map |-> map.v,
           _sensors |-> sensors_setter(settings)]

\* [k for k in self._sensors if self._sensors[k]]
valid_sensors_truthy(self) ==
  LET on(k) == k.v \in DOMAIN self._sensors /\ Truthy(self._sensors[k.v])
  IN SelectSeq(<<Str(SENSOR_TEMP), Str(SENSOR_HUMID), Str(SENSOR_WIND),
                 Str(SENSOR_RAIN), Str(SENSOR_SPEED)>>, on)

\* list(self._sensors.keys()), in the order the setter inserts the keys
valid_sensors(self) ==
  LET inDict(k) == k.v \in DOMAIN self._sensors
  IN SelectSeq(<<Str(SENSOR_TEMP), Str(SENSOR_HUMID), Str(SENSOR_WIND),
                 Str(SENSOR_RAIN), Str(SENSOR_SPEED)>>, inDict)

\* a variant that does not look at the alias map
_verify_sensor_keys_only(self, chName, force) ==
  IF force
  THEN chName # <<>> /\ chName \in DOMAIN self._sensors
  ELSE chName # <<>>

_verify_sensor(self, chName, force) ==
  IF force
  THEN chName # <<>> /\ (chName \in DOMAIN self._sensors
                          \/ chName \in DOMAIN self._sensor_map)
  ELSE chName # <<>>

\* the result is a Python list, or the exception raised
_normalize_sensor_list(inChannels) ==
  IF Truthy(inChannels) THEN
    IF isinstance_str(inChannels) THEN
      LET parts == split(inChannels.v, DELIM_STD)
      IN List([i \in DOMAIN parts |-> Str(parts[i])])
    ELSE IF inChannels.t # "list" THEN Raise("TypeError")
    ELSE IF \A i \in DOMAIN inChannels.v : isinstance_str(inChannels.v[i])
    THEN inChannels
    ELSE List(<<>>)
  ELSE List(<<>>)

\* a variant without the test for an empty list
is_valid_sensor_all(self, inChannels) ==
  LET tmpList == _normalize_sensor_list(inChannels)
  IN IF tmpList.t = "raise" THEN tmpList
     ELSE Bool(\A i \in DOMAIN tmpList.v : _verify_sensor(self, tmpList.v[i].v, TRUE))

is_valid_sensor(self, inChannels) ==
  LET tmpList == _normalize_sensor_list(inChannels)
  IN IF tmpList.t = "raise" THEN tmpList
     ELSE IF Truthy(tmpList)
     THEN Bool(\A i \in DOMAIN tmpList.v : _verify_sensor(self, tmpList.v[i].v, TRUE))
     ELSE Bool(FALSE)

is_enabled_sensor(self, inChannels) ==
  LET tmpList == _normalize_sensor_list(inChannels)
  IN IF tmpList.t = "raise" THEN tmpList
     ELSE IF Truthy(tmpList)
     THEN Bool(\A i \in DOMAIN tmpList.v :
                 /\ tmpList.v[i].v \in DOMAIN self._sensors
                 /\ Truthy(self._sensors[tmpList.v[i].v]))
     ELSE Bool(FALSE)

process_sensor_list(self, inList, strict) ==
  LET tmpList == IF inList.t = "list" THEN inList.v
                 ELSE convert_attrib_str_to_list(inList)
      verified(tmp) == _verify_sensor(self, strip(tmp.v), strict)
      items == SelectSeq(tmpList, verified)
      mapped == [i \in DOMAIN items |->
                   LET item == strip(items[i].v)
                   IN IF item \in DOMAIN self._sensor_map
                      THEN Str(self._sensor_map[item]) ELSE Str(item)]
      enabled(ch) == is_enabled_sensor(self, ch) = Bool(TRUE)
  IN IF \E i \in DOMAIN tmpList : ~isinstance_str(tmpList[i])
     THEN Raise("AttributeError")
     ELSE List(SelectSeq(mapped, enabled))

(***************************************************************************)
(* __main__.py: files and paths.  A path is a string; the file system is   *)
(* the set of (normalised) paths of the existing files.                    *)
(***************************************************************************)
_APP_CONFIG_ == <<"f451-sensors.config.ini">>
_APP_SECRETS_ == <<"f451-sensors.secrets.ini">>
Cwd == <<"/cwd">>
ModuleDir == <<"/site-packages/f451_sensors">>
Home == <<"/home/user">>
EtcDir == <<"/etc/f451-sensors">>

\* Path(fn): the empty path is the current directory, a trailing '/' is dropped
RECURSIVE Path(_)
Path(fn) ==
  IF fn = <<>> THEN <<".">>
  ELSE IF Len(fn) > 1 /\ fn[Len(fn)] = "/" THEN Path(SubSeq(fn, 1, Len(fn) - 1))
  ELSE fn

\* a variant that leaves '~' as it is
expanduser_none(p) ==
  IF Head(p) = "~nouser" THEN Raise("RuntimeError") ELSE Str(p)

\* Path.expanduser(): '~' is the user's home, an unknown '~user' is an error
expanduser(p) ==
  IF Head(p) = "~" THEN Str(Home \o Tail(p))
  ELSE IF Head(p) = "~nouser" THEN Raise("RuntimeError")
  ELSE Str(p)

\* Path.exists(): the current directory always exists
exists(fs, p) == p = <<".">> \/ p \in fs

\* the candidates of get_valid_location, in the order they are tried
defaultLocations(inFName) ==
  LET cleanFName == strip_slash(inFName)
  IN << Cwd \o <<"/">> \o cleanFName,
        ModuleDir \o <<"/">> \o cleanFName,
        Home \o <<"/">> \o cleanFName,
        EtcDir \o <<"/">> \o cleanFName >>

get_valid_location(fs, inFName) ==
  LET locs == defaultLocations(inFName)
      found == {i \in DOMAIN locs : exists(fs, Path(locs[i]))}
  IN IF found = {} THEN <<>>
     ELSE locs[CHOOSE i \in found : \A j \in found : i <= j]

\* 'a or b' on optional strings
Or(a, b) == IF Truthy(a) THEN a ELSE b

\* a variant that looks at the environment before the command line
located_env_first(fs, env, args) ==
  << Or(env.config, Or(args.config, Str(get_valid_location(fs, _APP_CONFIG_)))),
     Or(env.secrets, Or(args.secrets, Str(get_valid_location(fs, _APP_SECRETS_)))) >>

\* the two paths handed to init_ini_parser by main
located(fs, env, args) ==
  << Or(args.config, Or(env.config, Str(get_valid_location(fs, _APP_CONFIG_)))),
     Or(args.secrets, Or(env.secrets, Str(get_valid_location(fs, _APP_SECRETS_)))) >>

(***************************************************************************)
(* The files that may be on disk, and what each holds when it is there.    *)
(***************************************************************************)
FileA == <<"/opt/a.ini">>
FileB == <<"~", "/b.ini">>
FileS == <<"/opt/s.ini">>
FileX == <<"~nouser", "/x.ini">>
FileD == <<"/opt/d.ini", "/">>
CwdConfig == defaultLocations(_APP_CONFIG_)[1]
ModConfig == defaultLocations(_APP_CONFIG_)[2]
HomeConfig == defaultLocations(_APP_CONFIG_)[3]
EtcConfig == defaultLocations(_APP_CONFIG_)[4]
CwdSecrets == defaultLocations(_APP_SECRETS_)[1]

KWD_TOPIC == <<"mqtt_topic">>
KWD_PRIV_KEY == <<"priv_api_key">>
NoOptions == [k \in {} |-> <<>>]

FileContent ==
  (CwdConfig :> (SENSOR_MAIN :> (KWD_SENSORS :> <<"f451_temperature", "|", "f451_wind">>
                                 @@ KWD_SENSOR_MAP :> <<"temp", ":", "f451_temperature">>)
                 @@ SENSOR_TEMP :> (KWD_TOPIC :> <<"t1">>)
                 @@ SENSOR_WIND :> NoOptions))
  @@ (ModConfig :> (SENSOR_MAIN :> (KWD_SENSORS :> <<"f451_rain">>)
                    @@ SENSOR_RAIN :> NoOptions))
  @@ (HomeConfig :> (SENSOR_HUMID :> NoOptions))
  @@ (EtcConfig :> (SENSOR_MAIN :> NoOptions
                    @@ SENSOR_SPEED :> (KWD_TOPIC :> <<"t2">>)))
  @@ (CwdSecrets :> (SENSOR_MAIN :> (KWD_SENSOR_MAP :> <<"t", ":", "f451_temperature">>)
                     @@ SENSOR_TEMP :> (KWD_PRIV_KEY :> <<"k1">>)))
  @@ (FileA :> (SENSOR_MAIN :> (KWD_SENSORS :> <<"temp">>
                                @@ KWD_SENSOR_MAP :> <<"temp", ":", "f451_temperature", "|",
                                                       "hum", ":", "f451_humidity">>)
                @@ SENSOR_TEMP :> (KWD_TOPIC :> <<"t3">>)
                @@ SENSOR_HUMID :> NoOptions))
  @@ (expanduser(FileB).v :> (SENSOR_MAIN :> (KWD_SENSORS :> <<>>)
                              @@ SENSOR_WIND :> (KWD_TOPIC :> <<"t4">>)))
  @@ (FileS :> (SENSOR_MAIN :> (KWD_SENSORS :> <<"f451_humidity">>)
                @@ SENSOR_TEMP :> (KWD_TOPIC :> <<"t5">> @@ KWD_PRIV_KEY :> <<"k2">>)))
  @@ (Path(FileD) :> (SENSOR_RAIN :> (KWD_TOPIC :> <<"t6">>)))

\* parser.read(tmpName): a path that cannot be opened as a file is skipped
read_path(parser, tmpName) ==
  IF tmpName \in DOMAIN FileContent THEN read(parser, FileContent[tmpName])
  ELSE parser

(***************************************************************************)
(* Inputs.                                                                 *)
(***************************************************************************)
SeqsUpTo(S, n) == UNION {[1..m -> S] : m \in 0..n}

FileUniverse == DOMAIN FileContent

\* os.environ: the two variables naming the config and the secrets file
Environs == [config : {None, Str(<<>>), Str(FileA)}, secrets : {None, Str(FileS)}]

NoArgs ==
  [help |-> TRUE, version |-> FALSE, config |-> None, secrets |-> None,
   sensor |-> SENSOR_ALL]

\* the command lines: no argument at all, --version, or a run
CliInputs ==
  {NoArgs}
  \cup [help : {FALSE}, version : {TRUE}, config : {None}, secrets : {None},
        sensor : {SENSOR_ALL}]
  \cup [help : {FALSE}, version : {FALSE},
        config : {None, Str(<<>>), Str(FileA), Str(FileB)},
        secrets : {None, Str(FileS)},
        sensor : {SENSOR_ALL, SENSOR_TEMP, <<"temp">>, <<"bogus">>,
                  <<"f451_temperature", "|", "f451_wind">>}]

\* the argument of a direct call of init_ini_parser: a list of paths or one path
PathInputs == {<<>>, FileA, FileB, FileS, FileX, FileD}
FNameInputs ==
  {List(l) : l \in SeqsUpTo({Str(q) : q \in PathInputs}, MaxPaths)}
  \cup {Str(q) : q \in PathInputs}
ParseUniverse == {FileA, expanduser(FileB).v, FileS, Path(FileD)}

\* the configuration stores a registry is built from
SensorKeys == {SENSOR_TEMP, SENSOR_HUMID, SENSOR_WIND, SENSOR_RAIN, SENSOR_SPEED}
MainOptions ==
  { NoOptions,
    KWD_SENSORS :> <<"f451_temperature", "|", "f451_wind">>
      @@ KWD_SENSOR_MAP :> <<"temp", ":", "f451_temperature">>,
    KWD_SENSOR_MAP :> <<"temp", ":", "f451_temperature", "|", "bogus", "|",
                        ":", "x", "|", "hum", ":", "f451_humidity">>,
    KWD_SENSORS :> <<>>
      @@ KWD_SENSOR_MAP :> <<"a", ":", "b", "|", "b", ":", "c", "|",
                             "f451_wind", ":", "f451_rain">>,
    KWD_SENSORS :> <<"$temp">>,
    KWD_SENSORS :> <<"${f451_main:sensors}">>,
    KWD_SENSOR_MAP :> <<"temp", ":", "${nosuch:key}">>,
    KWD_SENSORS :> <<"${f451_main:sensor_map}">>
      @@ KWD_SENSOR_MAP :> <<"temp", ":", "f451_temperature">> }
Stores ==
  {[s \in S |-> NoOptions] : S \in SUBSET SensorKeys}
  \cup {[s \in S \cup {SENSOR_MAIN} |-> IF s = SENSOR_MAIN THEN m ELSE NoOptions] :
          S \in SUBSET SensorKeys, m \in MainOptions}

\* the arguments of the queries
StrAtoms == {DELIM_STD, " ", "f451_temperature", "temp", "bogus"}
StrInputs == SeqsUpTo(StrAtoms, MaxStrLen)
ListElems ==
  {Str(n) : n \in {<<>>, SENSOR_TEMP, SENSOR_HUMID, <<"temp">>, <<"hum">>, <<"bogus">>,
                   <<" ", "temp">>, <<"f451_wind">>, <<"a">>}}
  \cup {PyInt(1)}
ListInputs == {List(l) : l \in SeqsUpTo(ListElems, MaxListLen)}
QueryInputs ==
  {None, PyInt(0), PyInt(123)} \cup {Str(q) : q \in StrInputs} \cup ListInputs

(***************************************************************************)
(* State.                                                                  *)
(***************************************************************************)
VARIABLES
  fsys,              \* the existing files
  environ,           \* os.environ
  entry,             \* what the client runs: "main", "init_ini_parser", "Sensors"
  pc,                \* the position of the run
  cliArgs,           \* main: the parsed command line
  fNames,            \* init_ini_parser: its argument
  idx,               \* init_ini_parser: position of the loop in tmpList
  parser,            \* init_ini_parser: the ConfigParser being filled
  sensors,           \* the Sensors instance, None before it is built
  availableSensors,  \* main: the selection
  stdout,            \* main: what has been printed
  listing,           \* main: the printed ON/OFF table
  exitCode,          \* the exit status of the process, -1 while it runs
  exc,               \* the exception raised, if any
  call,              \* the last query made on the registry and its result
  interp,            \* the interpolation of the value being read
  maxRetry,          \* collect_temperature_data: its argument
  attempts,          \* collect_temperature_data: the calls counted so far
  data,              \* collect_temperature_data: the last data returned
  collected,         \* the outcomes of the calls made on the sensor, in order
  inDelay,           \* run_smart_sensor: its argument
  iterMax,           \* run_smart_sensor: its argument
  delay,             \* run_smart_sensor: the clamped delay
  cntr,              \* run_smart_sensor: the loop counter
  published,         \* the readings published to the topic, in order
  slept              \* the durations of the sleeps, in order

collectVars == <<maxRetry, attempts, data, collected>>
smartVars == <<inDelay, iterMax, delay, cntr, published, slept>>

vars ==
  <<fsys, environ, entry, pc, cliArgs, fNames, idx, parser, sensors,
    availableSensors, stdout, listing, exitCode, exc, call, interp,
    collectVars, smartVars>>

NoExc == [type |-> "", path |-> <<>>]
NoCall == [op |-> "", arg |-> None, strict |-> FALSE, ret |-> None]
NoInterp == [status |-> "", stack |-> <<>>, accum |-> <<>>, error |-> ""]

\* collect_temperature_data and run_smart_sensor are not running
NoCollect ==
  /\ maxRetry = 0 /\ attempts = 0 /\ data = None /\ collected = <<>>
NoSmart ==
  /\ inDelay = 0 /\ iterMax = 0 /\ delay = 0 /\ cntr = 0
  /\ published = <<>> /\ slept = <<>>

InitCommon ==
  /\ cliArgs = NoArgs
  /\ sensors = None
  /\ availableSensors = None
  /\ stdout = <<>>
  /\ listing = <<>>
  /\ exitCode = -1
  /\ exc = NoExc
  /\ call = NoCall
  /\ interp = NoInterp
  /\ NoCollect
  /\ NoSmart

\* the command line program is started
InitMain ==
  /\ fsys \in SUBSET FileUniverse
  /\ environ \in Environs
  /\ entry = "main"
  /\ pc = "main"
  /\ fNames = None
  /\ idx = 0
  /\ parser = EmptyStore
  /\ InitCommon

\* init_ini_parser is called on some paths
InitParse ==
  /\ fsys \in SUBSET ParseUniverse
  /\ environ = [config |-> None, secrets |-> None]
  /\ entry = "init_ini_parser"
  /\ pc = "init_ini_parser"
  /\ fNames \in FNameInputs
  /\ idx = 1
  /\ parser = EmptyStore
  /\ InitCommon

\* a registry is built from some store and then queried
InitRegistry ==
  /\ fsys = {}
  /\ environ = [config |-> None, secrets |-> None]
  /\ entry = "Sensors"
  /\ pc = "Sensors"
  /\ fNames = None
  /\ idx = 0
  /\ parser \in Stores
  /\ InitCommon

Init == InitMain \/ InitParse

(***************************************************************************)
(* __main__.py: init_ini_parser, one action per turn of its loop.          *)
(***************************************************************************)
tmpList(fn) == IF fn.t = "list" THEN fn.v ELSE <<fn>>

\* an exception leaves init_ini_parser; main does not catch it
Raised(type, path) ==
  /\ exc' = [type |-> type, path |-> path]
  /\ IF entry = "main"
     THEN pc' = "exit" /\ exitCode' = 1
     ELSE pc' = "raised" /\ exitCode' = exitCode
  /\ UNCHANGED <<collectVars, smartVars, interp, fsys, environ, entry, cliArgs, fNames, idx, parser, sensors,
                 availableSensors, stdout, listing, call>>

\* tmpName exists: parser.read(tmpName)
init_ini_parser_read ==
  /\ pc = "init_ini_parser"
  /\ idx <= Len(tmpList(fNames))
  /\ LET tmpName == expanduser(Path(tmpList(fNames)[idx].v))
     IN /\ tmpName.t = "str"
        /\ exists(fsys, tmpName.v)
        /\ parser' = read_path(parser, tmpName.v)
  /\ idx' = idx + 1
  /\ UNCHANGED <<collectVars, smartVars, interp, fsys, environ, entry, pc, cliArgs, fNames, sensors,
                 availableSensors, stdout, listing, exitCode, exc, call>>

\* tmpName does not exist: raise ValueError(f"Config file '{tmpName}' ...")
init_ini_parser_missing ==
  /\ pc = "init_ini_parser"
  /\ idx <= Len(tmpList(fNames))
  /\ LET tmpName == expanduser(Path(tmpList(fNames)[idx].v))
     IN /\ tmpName.t = "str"
        /\ ~exists(fsys, tmpName.v)
        /\ Raised("ValueError", tmpName.v)

\* expanduser() cannot resolve the home directory
init_ini_parser_expanduser ==
  /\ pc = "init_ini_parser"
  /\ idx <= Len(tmpList(fNames))
  /\ expanduser(Path(tmpList(fNames)[idx].v)).t = "raise"
  /\ Raised("RuntimeError", <<>>)

\* the loop is over: return parser
init_ini_parser_return ==
  /\ pc = "init_ini_parser"
  /\ idx > Len(tmpList(fNames))
  /\ pc' = IF entry = "main" THEN "Sensors" ELSE "returned"
  /\ UNCHANGED <<collectVars, smartVars, interp, fsys, environ, entry, cliArgs, fNames, idx, parser, sensors,
                 availableSensors, stdout, listing, exitCode, exc, call>>

(***************************************************************************)
(* __main__.py: main.                                                      *)
(***************************************************************************)
\* the command line is parsed; help and --version end the run
main_args ==
  /\ pc = "main"
  /\ \E a \in CliInputs :
       /\ cliArgs' = a
       /\ IF a.help
          THEN stdout' = Append(stdout, "help") /\ pc' = "exit" /\ exitCode' = 0
          ELSE IF a.version
          THEN stdout' = Append(stdout, "version") /\ pc' = "exit" /\ exitCode' = 0
          ELSE stdout' = stdout /\ pc' = "locate" /\ exitCode' = exitCode
  /\ UNCHANGED <<collectVars, smartVars, interp, fsys, environ, entry, fNames, idx, parser, sensors,
                 availableSensors, listing, exc, call>>

\* the argument of init_ini_parser is evaluated and the function entered
main_locate ==
  /\ pc = "locate"
  /\ fNames' = List(located(fsys, environ, cliArgs))
  /\ idx' = 1
  /\ parser' = EmptyStore
  /\ pc' = "init_ini_parser"
  /\ UNCHANGED <<collectVars, smartVars, interp, fsys, environ, entry, cliArgs, sensors, availableSensors,
                 stdout, listing, exitCode, exc, call>>

\* Sensors(config), by main or by a client of the class; main does not catch
\* an exception of the constructor
new_Sensors ==
  /\ pc = "Sensors"
  /\ LET new == Sensors(parser)
     IN IF DOMAIN new = {"t", "v"}
        THEN /\ sensors' = sensors
             /\ exc' = [type |-> new.v, path |-> <<>>]
             /\ IF entry = "main"
                THEN pc' = "exit" /\ exitCode' = 1
                ELSE pc' = "raised" /\ exitCode' = exitCode
        ELSE /\ sensors' = new
             /\ exc' = exc
             /\ exitCode' = exitCode
             /\ pc' = IF entry = "main" THEN "select" ELSE "ready"
  /\ UNCHANGED <<collectVars, smartVars, interp, fsys, environ, entry, cliArgs, fNames, idx, parser,
                 availableSensors, stdout, listing, call>>

\* "Exit if invalid sensor", without the exit
main_select_lenient ==
  /\ pc = "select"
  /\ LET parts == split(cliArgs.sensor, DELIM_STD)
         avail == IF cliArgs.sensor = SENSOR_ALL
                  THEN List(valid_sensors(sensors))
                  ELSE process_sensor_list(
                         sensors, List([i \in DOMAIN parts |-> Str(parts[i])]), FALSE)
     IN /\ availableSensors' = avail
        /\ stdout' = stdout /\ pc' = "list" /\ exitCode' = exitCode
  /\ UNCHANGED <<collectVars, smartVars, interp, fsys, environ, entry, cliArgs, fNames, idx, parser, sensors,
                 listing, exc, call>>

\* "Exit if invalid sensor"
main_select ==
  /\ pc = "select"
  /\ LET parts == split(cliArgs.sensor, DELIM_STD)
         avail == IF cliArgs.sensor = SENSOR_ALL
                  THEN List(valid_sensors(sensors))
                  ELSE process_sensor_list(
                         sensors, List([i \in DOMAIN parts |-> Str(parts[i])]), FALSE)
     IN /\ availableSensors' = avail
        /\ IF is_valid_sensor(sensors, avail) = Bool(TRUE)
           THEN stdout' = stdout /\ pc' = "list" /\ exitCode' = exitCode
           ELSE stdout' = Append(stdout, "ERROR") /\ pc' = "exit" /\ exitCode' = 1
  /\ UNCHANGED <<collectVars, smartVars, interp, fsys, environ, entry, cliArgs, fNames, idx, parser, sensors,
                 listing, exc, call>>

\* "Available Sensors": one ON/OFF line per sensor
main_list ==
  /\ pc = "list"
  /\ stdout' = Append(stdout, "Available Sensors")
  /\ listing' = LET keys == valid_sensors(sensors)
                IN [i \in DOMAIN keys |->
                      <<keys[i].v,
                        IF Truthy(sensors._sensors[keys[i].v]) THEN "ON" ELSE "OFF">>]
  /\ pc' = "collect"
  /\ UNCHANGED <<collectVars, smartVars, interp, fsys, environ, entry, cliArgs, fNames, idx, parser, sensors,
                 availableSensors, exitCode, exc, call>>

\* "Collect data from": Sensors has no method collect_temperature_data, so the
\* first call in collect_temperature_data raises AttributeError, uncaught
main_collect ==
  /\ pc = "collect"
  /\ IF \E i \in DOMAIN availableSensors.v : availableSensors.v[i] = Str(SENSOR_TEMP)
     THEN /\ stdout' = Append(stdout, "Collect temperature data")
          /\ exc' = [type |-> "AttributeError", path |-> <<>>]
          /\ exitCode' = 1
     ELSE /\ stdout' = Append(stdout, "Hello world!")
          /\ exc' = exc
          /\ exitCode' = 0
  /\ pc' = "exit"
  /\ UNCHANGED <<collectVars, smartVars, interp, fsys, environ, entry, cliArgs, fNames, idx, parser, sensors,
                 availableSensors, listing, call>>

(***************************************************************************)
(* Queries of a client on the registry it has built.                       *)
(***************************************************************************)
Query(op, arg, strict, ret) ==
  /\ pc = "ready"
  /\ call' = [op |-> op, arg |-> arg, strict |-> strict, ret |-> ret]
  /\ pc' = "answered"
  /\ UNCHANGED <<collectVars, smartVars, interp, fsys, environ, entry, cliArgs, fNames, idx, parser, sensors,
                 availableSensors, stdout, listing, exitCode, exc>>

\* the client has used the result and is ready for its next query
call_return ==
  /\ pc = "answered"
  /\ call' = NoCall
  /\ pc' = "ready"
  /\ UNCHANGED <<collectVars, smartVars, interp, fsys, environ, entry, cliArgs, fNames, idx, parser, sensors,
                 availableSensors, stdout, listing, exitCode, exc>>

call_is_valid_sensor ==
  \E a \in QueryInputs : Query("is_valid_sensor", a, FALSE, is_valid_sensor(sensors, a))

call_is_enabled_sensor ==
  \E a \in QueryInputs : Query("is_enabled_sensor", a, FALSE, is_enabled_sensor(sensors, a))

call_normalize_sensor_list ==
  \E a \in QueryInputs :
    Query("_normalize_sensor_list", a, FALSE, _normalize_sensor_list(a))

call_verify_sensor ==
  \E n \in StrInputs \cup {e.v : e \in {x \in ListElems : x.t = "str"}}, force \in BOOLEAN :
    Query("_verify_sensor", Str(n), force, Bool(_verify_sensor(sensors, n, force)))

call_process_sensor_list ==
  \E a \in ListInputs, strict \in BOOLEAN :
    Query("process_sensor_list", a, strict, process_sensor_list(sensors, a, strict))

\* the property getters
default_sensors(self) == List(self._default_sensors)

sensor_map(self) == [t |-> "dict", v |-> self._sensor_map]

call_default_sensors == Query("default_sensors", None, FALSE, default_sensors(sensors))

call_sensor_map == Query("sensor_map", None, FALSE, sensor_map(sensors))

call_valid_sensors == Query("valid_sensors", None, FALSE, List(valid_sensors(sensors)))

\* a client asks both questions about the same selection
call_valid_and_enabled ==
  \E a \in QueryInputs :
    Query("is_valid_sensor, is_enabled_sensor", a, FALSE,
          List(<<is_valid_sensor(sensors, a), is_enabled_sensor(sensors, a)>>))

\* the stores of a client that reloads its configuration
ReloadStores ==
  { EmptyStore,
    SENSOR_MAIN :> (KWD_SENSORS :> <<"f451_temperature">>
                    @@ KWD_SENSOR_MAP :> <<"temp", ":", "f451_temperature">>)
      @@ SENSOR_TEMP :> NoOptions,
    SENSOR_MAIN :> (KWD_SENSORS :> <<"f451_wind", "|", "f451_rain">>
                    @@ KWD_SENSOR_MAP :> <<"hum", ":", "f451_humidity">>)
      @@ SENSOR_WIND :> NoOptions,
    SENSOR_MAIN :> (KWD_SENSORS :> <<"$temp">>
                    @@ KWD_SENSOR_MAP :> <<"temp", ":", "${nosuch:key}">>) }

ConfigParser(store) == [t |-> "ConfigParser", v |-> store]

\* an assignment to one of the three properties: 'attr = config'
Assign(attr, config, outcome) ==
  /\ pc = "ready"
  /\ call' = [op |-> attr, arg |-> ConfigParser(config), strict |-> FALSE,
              ret |-> IF outcome.t = "raise" THEN outcome ELSE None]
  /\ sensors' = IF outcome.t = "raise" THEN sensors
                ELSE [sensors EXCEPT ![attr] = outcome.v]
  /\ pc' = "answered"
  /\ UNCHANGED <<collectVars, smartVars, interp, fsys, environ, entry, cliArgs, fNames, idx, parser,
                 availableSensors, stdout, listing, exitCode, exc>>

set_sensors ==
  \E config \in ReloadStores :
    Assign("_sensors", config, Assigned(sensors_setter(process_config(config, FALSE))))

set_sensor_map ==
  \E config \in ReloadStores :
    Assign("_sensor_map", config, sensor_map_setter(process_config(config, FALSE)))

set_default_sensors ==
  \E config \in ReloadStores :
    Assign("_default_sensors", config, default_sensors_setter(process_config(config, FALSE)))

(***************************************************************************)
(* Reading one option of the main section, step by step.                   *)
(***************************************************************************)
\* [c] holds a chain of n options: k1 refers to k2, ..., the last one is plain
ChainSection(n) ==
  [k \in {ChainKey[i] : i \in 1..n} |->
     LET i == CHOOSE j \in 1..n : ChainKey[j] = k
     IN IF i < n THEN <<ChainRef[i + 1]>> ELSE <<"x">>]

ChainStore(n) ==
  SENSOR_MAIN :> (KWD_SENSORS :> <<"a", "|", "${c:k1}">>) @@ <<"c">> :> ChainSection(n)

InterpStores ==
  {ChainStore(n) : n \in DOMAIN ChainRef}
  \cup
  { SENSOR_MAIN :> (KWD_SENSORS :> <<"temp">>),
    SENSOR_MAIN :> (KWD_SENSORS :> <<"a", "$$", "b">>),
    SENSOR_MAIN :> (KWD_SENSORS :> <<"$temp">>),
    SENSOR_MAIN :> (KWD_SENSORS :> <<"${nosuch:key}">>),
    SENSOR_MAIN :> (KWD_SENSORS :> <<"${f451_main:sensors}">>),
    SENSOR_MAIN :> (KWD_SENSORS :> <<"${f451_main:sensor_map}">>
                    @@ KWD_SENSOR_MAP :> <<"temp", ":", "${f451_main:sensors}">>),
    SENSOR_MAIN :> (KWD_SENSORS :> <<"${f451_main:sensor_map}">>
                    @@ KWD_SENSOR_MAP :> <<"temp", ":", "f451_temperature">>),
    SENSOR_MAIN :> (KWD_SENSORS :> <<"${c:k1}">>)
      @@ <<"c">> :> (<<"k1">> :> <<"${c:k2}">> @@ <<"k2">> :> <<"${c:k1}">>),
    SENSOR_MAIN :> (KWD_SENSORS :> <<"${c:k1}", "|", "${c:k1}">>)
      @@ <<"c">> :> (<<"k1">> :> <<"$$", "x">>) }

\* settings.get(const.SENSOR_MAIN, option, fallback=""): the call is entered
get_enter ==
  /\ pc = "get"
  /\ \E option \in {KWD_SENSORS, KWD_SENSOR_MAP} :
       IF SENSOR_MAIN \in DOMAIN parser /\ option \in DOMAIN parser[SENSOR_MAIN]
       THEN /\ interp' = interpolation_start(parser[SENSOR_MAIN][option])
            /\ call' = [op |-> "get", arg |-> Str(option), strict |-> FALSE, ret |-> None]
            /\ pc' = "before_get"
       ELSE /\ interp' = interp
            /\ call' = [op |-> "get", arg |-> Str(option), strict |-> FALSE,
                        ret |-> Str(<<>>)]
            /\ pc' = "got"
  /\ UNCHANGED <<collectVars, smartVars, fsys, environ, entry, cliArgs, fNames, idx, parser, sensors,
                 availableSensors, stdout, listing, exitCode, exc>>

\* one step of the interpolation of the value
get_interpolate ==
  /\ pc = "before_get"
  /\ interp.status = "running"
  /\ interp' = _interpolate_some(parser, interp)
  /\ UNCHANGED <<collectVars, smartVars, fsys, environ, entry, cliArgs, fNames, idx, parser, sensors,
                 availableSensors, stdout, listing, exitCode, exc, call, pc>>

\* the call returns the joined value or raises
get_return ==
  /\ pc = "before_get"
  /\ interp.status \in {"done", "error"}
  /\ call' = [call EXCEPT !.ret = IF interp.status = "done" THEN Str(interp.accum)
                                  ELSE Raise(interp.error)]
  /\ pc' = "got"
  /\ UNCHANGED <<collectVars, smartVars, interp, fsys, environ, entry, cliArgs, fNames, idx, parser, sensors,
                 availableSensors, stdout, listing, exitCode, exc>>

(***************************************************************************)
(* __main__.py: collect_temperature_data.                                  *)
(***************************************************************************)
EmptyData == [t |-> "dict", v |-> [k \in {} |-> 0]]
Reading == [t |-> "dict", v |-> [k \in {"temperature"} |-> 21]]

\* an object of a class that has the method collect_temperature_data
Provider == [t |-> "provider", v |-> <<>>]

\* what sensors.collect_temperature_data() can do: the class Sensors has no
\* such method, a class that has it returns data or raises
OutcomesOf(obj) ==
  IF obj = Provider
  THEN {None, EmptyData, Reading, Raise("MissingAttributeError"), Raise("SensorAccessError")}
  ELSE {Raise("AttributeError")}

\* "while not data and attempts <= maxRetry"
loop_condition_inclusive(d, a, m) == ~Truthy(d) /\ a <= m

\* "while not data and attempts < maxRetry"
loop_condition(d, a, m) == ~Truthy(d) /\ a < m

\* the banner is printed, data = None, attempts = 0
collect_enter ==
  /\ pc = "collect_temperature_data"
  /\ stdout' = Append(stdout, "Collect temperature data")
  /\ data' = None
  /\ attempts' = 0
  /\ pc' = "while"
  /\ UNCHANGED <<maxRetry, collected, smartVars, interp, fsys, environ, entry, cliArgs,
                 fNames, idx, parser, sensors, availableSensors, listing, exitCode,
                 exc, call>>

\* one turn of the loop: data = sensors.collect_temperature_data(); attempts += 1
collect_call ==
  /\ pc = "while"
  /\ loop_condition(data, attempts, maxRetry)
  /\ \E outcome \in OutcomesOf(sensors) :
       /\ collected' = Append(collected, outcome)
       /\ IF outcome.t # "raise"
          THEN data' = outcome /\ attempts' = attempts + 1 /\ pc' = pc /\ exc' = exc
          ELSE IF outcome.v \in {"MissingAttributeError", "SensorAccessError"}
          THEN data' = data /\ attempts' = attempts /\ pc' = "except" /\ exc' = exc
          ELSE /\ data' = data /\ attempts' = attempts /\ pc' = "raised"
               /\ exc' = [type |-> outcome.v, path |-> <<>>]
  /\ UNCHANGED <<maxRetry, smartVars, interp, fsys, environ, entry, cliArgs, fNames, idx,
                 parser, sensors, availableSensors, stdout, listing, exitCode, call>>

\* the loop is left, or the exception was caught and printed: return data
collect_return ==
  /\ \/ pc = "while" /\ ~loop_condition(data, attempts, maxRetry)
     \/ pc = "except"
  /\ call' = [op |-> "collect_temperature_data", arg |-> PyInt(maxRetry),
              strict |-> FALSE, ret |-> data]
  /\ pc' = "returned"
  /\ UNCHANGED <<collectVars, smartVars, interp, fsys, environ, entry, cliArgs, fNames,
                 idx, parser, sensors, availableSensors, stdout, listing, exitCode, exc>>

(***************************************************************************)
(* smart_sensor.py: run_smart_sensor.                                      *)
(***************************************************************************)
MIN_DELAY == 1
MAX_DELAY == 3600
MQTT_PUBLISH_TOPIC == "temperature"

min(a, b) == IF a <= b THEN a ELSE b
max(a, b) == IF a >= b THEN a ELSE b

\* fake.random_int(min=lo, max=hi): three of the values it can give
random_int(lo, hi) == {lo, (lo + hi) \div 2, hi}

\* the arguments of run_smart_sensor
DelayInputs == {-5, 0, 1, 2, 3600, 3601}
IterInputs == -1..MaxIter

\* the runs that never end are followed up to this number of readings
PublishCap == MaxIter + 1

\* delay = max(min(inDelay, MAX_DELAY), MIN_DELAY); cntr = 0
smart_enter ==
  /\ pc = "run_smart_sensor"
  /\ delay' = max(min(inDelay, MAX_DELAY), MIN_DELAY)
  /\ cntr' = 0
  /\ pc' = "while"
  /\ UNCHANGED <<collectVars, inDelay, iterMax, published, slept, interp, fsys, environ,
                 entry, cliArgs, fNames, idx, parser, sensors, availableSensors, stdout,
                 listing, exitCode, exc, call>>

\* a turn of the loop up to the publish
smart_publish ==
  /\ pc = "while"
  /\ cntr # iterMax
  /\ Len(published) < PublishCap
  /\ cntr' = IF iterMax # 0 THEN cntr + 1 ELSE cntr
  /\ \E temperature \in random_int(0, 30) :
       published' = Append(published, <<MQTT_PUBLISH_TOPIC, temperature>>)
  /\ pc' = "sleep"
  /\ UNCHANGED <<collectVars, inDelay, iterMax, delay, slept, interp, fsys, environ,
                 entry, cliArgs, fNames, idx, parser, sensors, availableSensors, stdout,
                 listing, exitCode, exc, call>>

\* time.sleep(delay)
smart_sleep ==
  /\ pc = "sleep"
  /\ slept' = Append(slept, delay)
  /\ pc' = "while"
  /\ UNCHANGED <<collectVars, inDelay, iterMax, delay, cntr, published, interp, fsys,
                 environ, entry, cliArgs, fNames, idx, parser, sensors, availableSensors,
                 stdout, listing, exitCode, exc, call>>

\* cntr == iterMax: the loop and the function end
smart_return ==
  /\ pc = "while"
  /\ cntr = iterMax
  /\ pc' = "returned"
  /\ UNCHANGED <<collectVars, smartVars, interp, fsys, environ, entry, cliArgs, fNames,
                 idx, parser, sensors, availableSensors, stdout, listing, exitCode, exc,
                 call>>

(***************************************************************************)
(* Specifications.                                                         *)
(***************************************************************************)
Next ==
  \/ main_args
  \/ main_locate
  \/ init_ini_parser_read
  \/ init_ini_parser_missing
  \/ init_ini_parser_expanduser
  \/ init_ini_parser_return
  \/ new_Sensors
  \/ main_select
  \/ main_list
  \/ main_collect

Spec == Init /\ [][Next]_vars

NextRegistry ==
  \/ new_Sensors
  \/ call_is_valid_sensor
  \/ call_is_enabled_sensor
  \/ call_normalize_sensor_list
  \/ call_verify_sensor
  \/ call_process_sensor_list
  \/ call_default_sensors
  \/ call_sensor_map
  \/ call_valid_sensors
  \/ call_valid_and_enabled
  \/ call_return

SpecRegistry == InitRegistry /\ [][NextRegistry]_vars

\* a registry is built from some store and then used by a client that also
\* assigns to its properties
InitReload ==
  /\ fsys = {}
  /\ environ = [config |-> None, secrets |-> None]
  /\ entry = "Sensors"
  /\ pc = "Sensors"
  /\ fNames = None
  /\ idx = 0
  /\ parser \in ReloadStores
  /\ InitCommon

NextReload ==
  \/ new_Sensors
  \/ set_sensors
  \/ set_sensor_map
  \/ set_default_sensors
  \/ call_default_sensors
  \/ call_sensor_map
  \/ call_valid_sensors
  \/ call_return

SpecReload == InitReload /\ [][NextReload]_vars

\* one option of a store is read; a call that has started keeps running
InitGet ==
  /\ fsys = {}
  /\ environ = [config |-> None, secrets |-> None]
  /\ entry = "get"
  /\ pc = "get"
  /\ fNames = None
  /\ idx = 0
  /\ parser \in InterpStores
  /\ InitCommon

NextGet ==
  \/ get_enter
  \/ get_interpolate
  \/ get_return

SpecGet == InitGet /\ [][NextGet]_vars /\ WF_vars(NextGet)

\* collect_temperature_data is called on a Sensors instance or on an object
\* that has the method; a call that has started keeps running
InitCollect ==
  /\ fsys = {}
  /\ environ = [config |-> None, secrets |-> None]
  /\ entry = "collect_temperature_data"
  /\ pc = "collect_temperature_data"
  /\ fNames = None
  /\ idx = 0
  /\ parser = EmptyStore
  /\ cliArgs = NoArgs
  /\ sensors \in {Sensors(EmptyStore), Provider}
  /\ availableSensors = None
  /\ stdout = <<>>
  /\ listing = <<>>
  /\ exitCode = -1
  /\ exc = NoExc
  /\ call = NoCall
  /\ interp = NoInterp
  /\ maxRetry \in -1..MaxRetry
  /\ attempts = 0 /\ data = None /\ collected = <<>>
  /\ NoSmart

NextCollect ==
  \/ collect_enter
  \/ collect_call
  \/ collect_return

SpecCollect == InitCollect /\ [][NextCollect]_vars /\ WF_vars(NextCollect)

\* run_smart_sensor is called; a call that has started keeps running
InitSmart ==
  /\ fsys = {}
  /\ environ = [config |-> None, secrets |-> None]
  /\ entry = "run_smart_sensor"
  /\ pc = "run_smart_sensor"
  /\ fNames = None
  /\ idx = 0
  /\ parser = EmptyStore
  /\ cliArgs = NoArgs
  /\ sensors = None
  /\ availableSensors = None
  /\ stdout = <<>>
  /\ listing = <<>>
  /\ exitCode = -1
  /\ exc = NoExc
  /\ call = NoCall
  /\ interp = NoInterp
  /\ NoCollect
  /\ inDelay \in DelayInputs
  /\ iterMax \in IterInputs
  /\ delay = 0 /\ cntr = 0 /\ published = <<>> /\ slept = <<>>

NextSmart ==
  \/ smart_enter
  \/ smart_publish
  \/ smart_sleep
  \/ smart_return

SpecSmart == InitSmart /\ [][NextSmart]_vars /\ WF_vars(NextSmart)

(***************************************************************************)
(* Properties.  The expected values are written out from the statements,   *)
(* without the operators of the model.                                     *)
(***************************************************************************)
\* the parts of a '|'-delimited string: what lies between consecutive delimiters
PartsOf(s) ==
  LET cuts == {i \in DOMAIN s : s[i] = "|"}
      n == Cardinality(cuts)
      pos(k) == IF k = 0 THEN 0
                ELSE IF k = n + 1 THEN Len(s) + 1
                ELSE CHOOSE i \in cuts : Cardinality({j \in cuts : j < i}) = k - 1
  IN [k \in 1..(n + 1) |-> SubSeq(s, pos(k - 1) + 1, pos(k) - 1)]

\* the names a selection stands for: a string's parts, the elements of a list
\* of strings, nothing for anything else
NamesOf(x) ==
  IF x.t = "str" /\ x.v # <<>> THEN PartsOf(x.v)
  ELSE IF x.t = "list" /\ \A i \in DOMAIN x.v : x.v[i].t = "str"
  THEN [i \in DOMAIN x.v |-> x.v[i].v]
  ELSE <<>>

Built == entry = "Sensors" /\ pc \in {"ready", "answered"}

\* C1: in a built registry, each of the five sensor keys has a truthy entry
\* exactly when the store has the section of that key
C1_PresentIffSection ==
  Built => \A k \in SensorKeys : Truthy(sensors._sensors[k]) <=> (k \in DOMAIN parser)

\* C2: is_enabled_sensor is true exactly when the names are not empty and each
\* is a sensor key whose section is in the store
C2_EnabledIffSections ==
  (Built /\ call.op = "is_enabled_sensor") =>
    LET names == NamesOf(call.arg)
    IN (call.ret = Bool(TRUE)) <=>
         (names # <<>> /\ \A i \in DOMAIN names :
                            names[i] \in SensorKeys /\ names[i] \in DOMAIN parser)

\* C3: process_sensor_list gives the valid names of the input, aliases replaced,
\* of which the enabled ones (section in the store) are kept, order and
\* repetitions as in the input
C3_ResolveKeepsEnabled ==
  (Built /\ call.op = "process_sensor_list"
         /\ \A i \in DOMAIN call.arg.v : call.arg.v[i].t = "str") =>
    LET names == NamesOf(call.arg)
        isValid(n) == IF call.strict
                      THEN n # <<>> /\ (n \in SensorKeys \/ n \in DOMAIN sensors._sensor_map)
                      ELSE n # <<>>
        valid == SelectSeq(names, isValid)
        mapped == [i \in DOMAIN valid |->
                     IF valid[i] \in DOMAIN sensors._sensor_map
                     THEN sensors._sensor_map[valid[i]] ELSE valid[i]]
        isEnabled(n) == n \in SensorKeys /\ n \in DOMAIN parser
        kept == SelectSeq(mapped, isEnabled)
    IN call.ret = List([i \in DOMAIN kept |-> Str(kept[i])])

\* the paths given to init_ini_parser
PathsOf(fn) ==
  IF fn.t = "list" THEN [i \in DOMAIN fn.v |-> fn.v[i].v]
  ELSE IF fn.t = "str" THEN <<fn.v>>
  ELSE <<>>

\* what a path is once normalised and home-expanded
ExpectedName(q) ==
  CASE q = <<>> -> <<".">>
    [] q = <<"~", "/b.ini">> -> <<"/home/user", "/b.ini">>
    [] q = <<"/opt/d.ini", "/">> -> <<"/opt/d.ini">>
    [] OTHER -> q

Unresolvable(q) == q # <<>> /\ q[1] = "~nouser"

\* the path names nothing that exists: no file on disk, nor the directory "."
Missing(q) ==
  ~Unresolvable(q) /\ ExpectedName(q) \notin fsys /\ ExpectedName(q) # <<".">>

\* init_ini_parser has returned its store to the caller
Returned ==
  \/ pc = "returned"
  \/ entry = "main" /\ pc \in {"Sensors", "select", "list", "collect"}
  \/ entry = "main" /\ pc = "exit" /\ sensors # None

NoFile(q) == q = <<>> \/ ExpectedName(q) \notin fsys

\* C5: when main's config or secrets file does not exist, the run ends with a
\* non-zero exit, builds no registry and prints no sensor status
C5_MissingFileIsFatal ==
  (entry = "main" /\ fNames # None /\ \E i \in 1..2 : NoFile(PathsOf(fNames)[i])) =>
    /\ sensors = None
    /\ listing = <<>>
    /\ \A i \in DOMAIN stdout : stdout[i] # "Available Sensors"
    /\ pc \in {"init_ini_parser", "exit"}
    /\ pc = "exit" => exitCode # 0

\* the candidates of a file name, in the order of the search
CandidatesOf(name) ==
  << <<"/cwd", "/">> \o name,
     <<"/site-packages/f451_sensors", "/">> \o name,
     <<"/home/user", "/">> \o name,
     <<"/etc/f451-sensors", "/">> \o name >>

\* a path is given when there is a value and the value is not empty
Given(x) == x # None /\ x.v # <<>>

FollowsPrecedence(result, cli, env, name) ==
  LET C == CandidatesOf(name)
  IN IF Given(cli) THEN result = cli
     ELSE IF Given(env) THEN result = env
     ELSE IF \E i \in 1..4 : C[i] \in fsys
     THEN \E i \in 1..4 : /\ result = Str(C[i])
                          /\ C[i] \in fsys
                          /\ \A j \in 1..(i - 1) : C[j] \notin fsys
     ELSE result = Str(<<>>)

\* C6: main takes the path of the command line when one is given, else the
\* value of the environment variable, else the first existing one of cwd,
\* module directory, home and /etc/<app>, else the empty path; locating raises
\* nothing
C6_LocatePrecedence ==
  (entry = "main" /\ fNames # None) =>
    /\ FollowsPrecedence(fNames.v[1], cliArgs.config, environ.config,
                         <<"f451-sensors.config.ini">>)
    /\ FollowsPrecedence(fNames.v[2], cliArgs.secrets, environ.secrets,
                         <<"f451-sensors.secrets.ini">>)
    /\ (pc = "init_ini_parser" /\ idx = 1) => (exc = NoExc /\ exitCode = -1)

C6_Witness ==
  /\ entry = "main"
  /\ pc = "init_ini_parser"
  /\ cliArgs.config = None
  /\ environ.config = None
  /\ <<"/cwd", "/", "f451-sensors.config.ini">> \notin fsys
  /\ <<"/site-packages/f451_sensors", "/", "f451-sensors.config.ini">> \in fsys
  /\ <<"/home/user", "/", "f451-sensors.config.ini">> \in fsys
  /\ fNames.v[1] = Str(<<"/site-packages/f451_sensors", "/", "f451-sensors.config.ini">>)
  /\ cliArgs.secrets = Str(<<"/opt/s.ini">>)
  /\ environ.secrets # None
  /\ fNames.v[2] = Str(<<"/opt/s.ini">>)

\* what the i-th file of the call holds
ContentOf(q) ==
  IF ExpectedName(q) \in DOMAIN FileContent THEN FileContent[ExpectedName(q)]
  ELSE EmptyStore

Defines(q, s, k) == s \in DOMAIN ContentOf(q) /\ k \in DOMAIN ContentOf(q)[s]

\* C7: the store returned for several files holds, for each section and key,
\* the value of the last file defining it, keys of earlier files included;
\* main parses the config file first and the secrets file second
C7_LastFileWins ==
  Returned =>
    LET P == PathsOf(fNames)
        sections == UNION {DOMAIN FileContent[f] : f \in DOMAIN FileContent}
        keys == UNION {UNION {DOMAIN FileContent[f][s] : s \in DOMAIN FileContent[f]} :
                         f \in DOMAIN FileContent}
    IN /\ \A s \in sections :
            (s \in DOMAIN parser) <=> \E i \in DOMAIN P : s \in DOMAIN ContentOf(P[i])
       /\ DOMAIN parser \subseteq sections
       /\ \A s \in DOMAIN parser : \A k \in keys :
            /\ (k \in DOMAIN parser[s]) <=> \E i \in DOMAIN P : Defines(P[i], s, k)
            /\ \A i \in DOMAIN P :
                 (Defines(P[i], s, k) /\ \A j \in (i + 1)..Len(P) : ~Defines(P[j], s, k))
                   => parser[s][k] = ContentOf(P[i])[s][k]
       /\ \A s \in DOMAIN parser : DOMAIN parser[s] \subseteq keys
       /\ entry = "main" =>
            /\ Given(cliArgs.config) => fNames.v[1] = cliArgs.config
            /\ Given(cliArgs.secrets) => fNames.v[2] = cliArgs.secrets

C7_Witness ==
  /\ entry = "main"
  /\ pc = "Sensors"
  /\ PathsOf(fNames) = << <<"/opt/a.ini">>, <<"/opt/s.ini">> >>
  /\ parser[<<"f451_temperature">>][<<"mqtt_topic">>] = <<"t5">>
  /\ parser[<<"f451_temperature">>][<<"priv_api_key">>] = <<"k2">>
  /\ parser[<<"f451_main">>][<<"sensors">>] = <<"f451_humidity">>
  /\ parser[<<"f451_main">>][<<"sensor_map">>] =
       <<"temp", ":", "f451_temperature", "|", "hum", ":", "f451_humidity">>

\* a name that is a sensor key or an alias of the registry
Known(n) == n \in SensorKeys \/ n \in DOMAIN sensors._sensor_map

\* C8: is_valid_sensor is true exactly when the names are not empty and each of
\* them is a non-empty sensor key or alias; it answers False otherwise
C8_ValidIffKnownNames ==
  (Built /\ call.op = "is_valid_sensor") =>
    LET names == NamesOf(call.arg)
        allKnown == names # <<>> /\ \A i \in DOMAIN names : names[i] # <<>> /\ Known(names[i])
    IN /\ (call.ret = Bool(TRUE)) <=> allKnown
       /\ (call.arg.t \in {"None", "str", "list"} /\ ~allKnown) => call.ret = Bool(FALSE)

C8_Witness ==
  /\ Built
  /\ call.op = "is_valid_sensor"
  /\ call.arg = Str(<<"temp", "|", "f451_temperature">>)
  /\ call.ret = Bool(TRUE)
  /\ <<"f451_temperature">> \notin DOMAIN parser

\* C9: _verify_sensor in strict mode is true exactly for a non-empty sensor key
\* or alias, and otherwise exactly for a non-empty name
C9_VerifyName ==
  (Built /\ call.op = "_verify_sensor") =>
    call.ret = Bool(IF call.strict
                    THEN call.arg.v # <<>> /\ Known(call.arg.v)
                    ELSE call.arg.v # <<>>)

C9_Witness ==
  /\ Built
  /\ call.op = "_verify_sensor"
  /\ ~call.strict
  /\ call.arg = Str(<<"bogus">>)
  /\ call.ret = Bool(TRUE)

\* C10: _normalize_sensor_list never raises: it gives the parts of a string,
\* a list of strings as it is, and the empty list for anything else
C10_NormalizeTotal ==
  (Built /\ call.op = "_normalize_sensor_list") =>
    /\ call.ret.t = "list"
    /\ call.ret.v = [i \in DOMAIN NamesOf(call.arg) |-> Str(NamesOf(call.arg)[i])]

\* the value of an option as it stands in the store, empty when it is missing
RawValue(section, option) ==
  IF section \in DOMAIN parser /\ option \in DOMAIN parser[section]
  THEN parser[section][option]
  ELSE <<>>

NoDollar(v) == \A i \in DOMAIN v : v[i] \notin DollarAtoms

\* C11: default_sensors is the list of the parts of the main section's
\* 'sensors' value, and the empty list when that value is empty or missing
C11_DefaultSensorsParts ==
  (Built /\ call.op = "default_sensors"
         /\ NoDollar(RawValue(<<"f451_main">>, <<"sensors">>))) =>
    LET value == RawValue(<<"f451_main">>, <<"sensors">>)
        expected == IF value = <<>> THEN <<>> ELSE PartsOf(value)
    IN call.ret = List([i \in DOMAIN expected |-> Str(expected[i])])

\* C12: building the registry never fails, whatever the store holds
C12_BuildNeverFails ==
  (entry = "Sensors" /\ pc # "Sensors") =>
    /\ pc # "raised"
    /\ exc = NoExc
    /\ Built

QueryOps ==
  {"is_valid_sensor", "is_enabled_sensor", "process_sensor_list",
   "valid_sensors", "default_sensors", "sensor_map"}

\* C13: every query on a built registry (is_valid_sensor, is_enabled_sensor,
\* process_sensor_list, valid_sensors, default_sensors, sensor_map) returns a
\* value and never raises, whatever its input
C13_QueriesTotal ==
  (Built /\ call.op \in QueryOps) => call.ret.t # "raise"

\* the 'alias:canonical' pairs of a value: the parts with exactly one ':' and
\* a non-empty alias; for an alias given twice the last pair counts
PairsOf(value) ==
  LET parts == PartsOf(value)
      colons(p) == {i \in DOMAIN p : p[i] = ":"}
      at(p) == CHOOSE i \in colons(p) : TRUE
      alias(p) == strip(SubSeq(p, 1, at(p) - 1))
      canonical(p) == strip(SubSeq(p, at(p) + 1, Len(p)))
      good == {k \in DOMAIN parts :
                 /\ value # <<>>
                 /\ Cardinality(colons(parts[k])) = 1
                 /\ alias(parts[k]) # <<>>}
      lastOf(a) == CHOOSE k \in good :
                     /\ alias(parts[k]) = a
                     /\ \A j \in good : alias(parts[j]) = a => j <= k
  IN [a \in {alias(parts[k]) : k \in good} |-> canonical(parts[lastOf(a)])]

\* C14: for every 'sensor_map' value the alias map gets built and holds
\* exactly the well-formed 'alias:canonical' pairs of the value; building it
\* never fails
C14_AliasMapPairs ==
  (/\ entry = "Sensors" /\ pc # "Sensors"
   /\ NoDollar(RawValue(<<"f451_main">>, <<"sensors">>))) =>
    /\ Built
    /\ sensors._sensor_map = PairsOf(RawValue(<<"f451_main">>, <<"sensor_map">>))

\* the same for the values without a '$'
C14_AliasMapPairsPlain ==
  (/\ entry = "Sensors" /\ pc # "Sensors"
   /\ NoDollar(RawValue(<<"f451_main">>, <<"sensors">>))
   /\ NoDollar(RawValue(<<"f451_main">>, <<"sensor_map">>))) =>
    /\ Built
    /\ sensors._sensor_map = PairsOf(RawValue(<<"f451_main">>, <<"sensor_map">>))

\* C15: a built registry never changes: at every moment its entry map, its
\* alias map and its default list are the ones built from its store
C15_Immutable ==
  Built =>
    /\ sensors._sensors = Sensors(parser)._sensors
    /\ sensors._sensor_map = Sensors(parser)._sensor_map
    /\ sensors._default_sensors = Sensors(parser)._default_sensors

\* C16: valid_sensors holds exactly the five canonical sensor keys, whatever
\* sections and aliases the store has; never the main key, never a name that
\* is an alias only
C16_ValidSensorsAreTheFiveKeys ==
  (Built /\ call.op = "valid_sensors") =>
    /\ call.ret.t = "list"
    /\ {call.ret.v[i] : i \in DOMAIN call.ret.v} =
         {Str(<<"f451_temperature">>), Str(<<"f451_humidity">>), Str(<<"f451_wind">>),
          Str(<<"f451_rain">>), Str(<<"f451_speed">>)}
    /\ Str(<<"f451_main">>) \notin {call.ret.v[i] : i \in DOMAIN call.ret.v}
    /\ \A a \in DOMAIN sensors._sensor_map :
         \/ a \in {<<"f451_temperature">>, <<"f451_humidity">>, <<"f451_wind">>,
                   <<"f451_rain">>, <<"f451_speed">>}
         \/ Str(a) \notin {call.ret.v[i] : i \in DOMAIN call.ret.v}

\* a store with an alias, the main section and only some of the sensor sections
C16_Witness ==
  /\ Built /\ call.op = "valid_sensors"
  /\ DOMAIN sensors._sensor_map # {}
  /\ <<"f451_temperature">> \in DOMAIN parser
  /\ <<"f451_wind">> \notin DOMAIN parser

\* main has evaluated the requested selection
Selected == entry = "main" /\ availableSensors # None

\* the selection is empty or holds a name that is neither a key nor an alias
InvalidSelection ==
  \/ availableSensors.v = <<>>
  \/ \E i \in DOMAIN availableSensors.v : ~Known(availableSensors.v[i].v)

\* C18: on help or --version main exits with code 0 and has not located or
\* read any configuration; when the requested selection is invalid main exits
\* with code 1 and has neither listed the sensors nor collected any data
C18_ExitCodes ==
  /\ (entry = "main" /\ pc # "main" /\ (cliArgs.help \/ cliArgs.version)) =>
       /\ pc = "exit" /\ exitCode = 0
       /\ fNames = None /\ parser = EmptyStore /\ sensors = None
       /\ exc = NoExc
  /\ (Selected /\ InvalidSelection) =>
       /\ pc = "exit" /\ exitCode = 1
       /\ \A i \in DOMAIN stdout :
            stdout[i] \notin {"Available Sensors", "Collect temperature data", "Hello world!"}
       /\ listing = <<>>

\* main was asked for a sensor that does not exist and has exited
C18_Witness ==
  /\ Selected /\ InvalidSelection
  /\ cliArgs.sensor = <<"bogus">>
  /\ pc = "exit"

\* the option a read is about, as <<section, option>>, and what the store holds
ReadOption == << <<"f451_main">>, call.arg.v >>

Exists(n) == n[1] \in DOMAIN parser /\ n[2] \in DOMAIN parser[n[1]]

ValueAt(n) == parser[n[1]][n[2]]

\* the options a value refers to
RefsOf(v) == {RefTarget[v[i]] : i \in {j \in DOMAIN v : v[j] \in DOMAIN RefTarget}}

\* the options reached from a set of options through the references
RECURSIVE ReachedFrom(_)
ReachedFrom(set) ==
  LET next == set \cup UNION {RefsOf(ValueAt(n)) : n \in {m \in set : Exists(m)}}
  IN IF next = set THEN set ELSE ReachedFrom(next)

\* every reference met on the way names an existing option and no value has a
\* '$' that is not a reference or an escape
WellFormed ==
  \A n \in ReachedFrom({ReadOption}) :
    /\ Exists(n)
    /\ \A i \in DOMAIN ValueAt(n) : ValueAt(n)[i] # "$temp"

\* some option on the way refers, directly or not, to itself
Cyclic ==
  \E n \in ReachedFrom({ReadOption}) : Exists(n) /\ n \in ReachedFrom(RefsOf(ValueAt(n)))

\* a value with every reference replaced by the expansion of what it names
RECURSIVE Expand(_)
Expand(v) ==
  IF v = <<>> THEN <<>>
  ELSE (IF Head(v) \in DOMAIN RefTarget THEN Expand(ValueAt(RefTarget[Head(v)]))
        ELSE IF Head(v) = "$$" THEN <<"$">>
        ELSE <<Head(v)>>) \o Expand(Tail(v))

\* how deep the values with a '$' are nested below a value, itself included
RECURSIVE Nesting(_)
Nesting(v) ==
  LET below == {Nesting(ValueAt(r)) :
                  r \in {q \in RefsOf(v) : \E i \in DOMAIN ValueAt(q) :
                                             ValueAt(q)[i] \in DollarAtoms}}
  IN 1 + (IF below = {} THEN 0 ELSE CHOOSE d \in below : \A e \in below : e <= d)

ReadReturned == entry = "get" /\ pc = "got" /\ Exists(ReadOption)

\* C19 as stated: a read returns the value with all its references resolved
\* transitively, and fails exactly when the references form a cycle
C19_ResolvedUnlessCyclic ==
  (ReadReturned /\ WellFormed) =>
    IF Cyclic THEN call.ret.t = "raise"
    ELSE call.ret = Str(Expand(ValueAt(ReadOption)))

\* C19: every read terminates; it returns the value with its references
\* resolved transitively when they nest at most MAX_INTERPOLATION_DEPTH deep,
\* and fails with InterpolationDepthError when they nest deeper, as they do in
\* every cycle
C19_TerminatesWithinDepth ==
  /\ <>(pc = "got")
  /\ [](  (ReadReturned /\ WellFormed) =>
            IF Cyclic \/ Nesting(ValueAt(ReadOption)) > MAX_INTERPOLATION_DEPTH
            THEN call.ret = Raise("InterpolationDepthError")
            ELSE call.ret = Str(Expand(ValueAt(ReadOption))) )

\* a read of a value whose references form a cycle has returned
C19_Witness ==
  /\ ReadReturned /\ WellFormed /\ Cyclic
  /\ <<"c">> \in DOMAIN parser

\* a read through a chain of references has returned the resolved value
C19_WitnessChain ==
  /\ ReadReturned /\ WellFormed /\ ~Cyclic
  /\ Nesting(ValueAt(ReadOption)) = MAX_INTERPOLATION_DEPTH
  /\ call.ret = Str(<<"a", "|", "x">>)

\* C20: for every registry and input, is_enabled_sensor true implies
\* is_valid_sensor true; valid and not enabled are exactly the inputs holding an
\* alias or a key whose section is not in the store
C20_EnabledImpliesValid ==
  (/\ Built /\ call.op = "is_valid_sensor, is_enabled_sensor"
   /\ call.ret.v[1].t = "bool" /\ call.ret.v[2].t = "bool") =>
    LET valid == call.ret.v[1] = Bool(TRUE)
        enabled == call.ret.v[2] = Bool(TRUE)
        names == NamesOf(call.arg)
        aliasOrAbsent == \E i \in DOMAIN names :
                           names[i] \notin SensorKeys \/ names[i] \notin DOMAIN parser
    IN /\ enabled => valid
       /\ (valid /\ ~enabled) <=> (valid /\ aliasOrAbsent)

\* the sensor a name of the command line stands for: the key itself, or the
\* key an alias of the alias map points to
SensorOf(n) ==
  IF n \in DOMAIN sensors._sensor_map /\ n \notin SensorKeys
  THEN sensors._sensor_map[n]
  ELSE n

\* --sensor was given, and each of its names is a key or an alias of a sensor
\* whose section is in the configuration
ExplicitPresentSelection ==
  /\ Selected
  /\ cliArgs.sensor # <<"all">>
  /\ \A i \in DOMAIN PartsOf(cliArgs.sensor) :
       /\ SensorOf(PartsOf(cliArgs.sensor)[i]) \in SensorKeys
       /\ SensorOf(PartsOf(cliArgs.sensor)[i]) \in DOMAIN parser

\* C21: a run with an explicit --sensor list of keys or aliases of sensors
\* whose sections are present passes the validity check: it does not exit
\* there with code 1, and goes on to the 'Available Sensors' listing
C21_ExplicitSelectionIsListed ==
  ExplicitPresentSelection =>
    /\ \A i \in DOMAIN stdout : stdout[i] # "ERROR"
    /\ pc = "exit" => \E i \in DOMAIN stdout : stdout[i] = "Available Sensors"

\* C23: process_sensor_list replaces a name of the alias table by the value the
\* table gives for it, once: the result for such a name is that value when it
\* is an enabled sensor (a key whose section is in the store) and nothing
\* otherwise, whether or not the name is itself a key or the value itself an
\* alias
C23_AliasAppliedOnce ==
  (/\ Built /\ call.op = "process_sensor_list"
   /\ Len(call.arg.v) = 1 /\ call.arg.v[1].t = "str"
   /\ call.arg.v[1].v \in DOMAIN sensors._sensor_map) =>
    LET once == sensors._sensor_map[call.arg.v[1].v]
    IN call.ret = IF once \in SensorKeys /\ once \in DOMAIN parser
                  THEN List(<<Str(once)>>)
                  ELSE List(<<>>)

\* C22: main attempts to collect temperature data only when the configuration
\* has the temperature section
C22_CollectOnlyWhenEnabled ==
  (entry = "main" /\ \E i \in DOMAIN stdout : stdout[i] = "Collect temperature data") =>
    <<"f451_temperature">> \in DOMAIN parser

\* the calls made on the sensor that returned data that is not empty
NonEmptyCalls ==
  {i \in DOMAIN collected :
     collected[i].t = "dict" /\ DOMAIN collected[i].v # {}}

\* the calls that raised one of the two errors the function handles
HandledCalls ==
  {i \in DOMAIN collected :
     collected[i] \in {[t |-> "raise", v |-> "MissingAttributeError"],
                       [t |-> "raise", v |-> "SensorAccessError"]}}

IsEmptyResult(x) == x.t = "None" \/ (x.t = "dict" /\ DOMAIN x.v = {})

CollectReturned == entry = "collect_temperature_data" /\ pc = "returned"

\* C24: collect_temperature_data ends; it calls the sensor at most maxRetry
\* times (never for maxRetry <= 0); a call that returns data that is not empty
\* or raises MissingAttributeError or SensorAccessError is the last call; the
\* function returns the data that is not empty if there is some, and an empty
\* result after a handled error or maxRetry empty answers
C24_CollectRetries ==
  /\ <>(pc \in {"returned", "raised"})
  /\ []( entry = "collect_temperature_data" =>
           /\ Len(collected) <= (IF maxRetry > 0 THEN maxRetry ELSE 0)
           /\ \A i \in NonEmptyCalls \cup HandledCalls : i = Len(collected)
           /\ CollectReturned =>
                /\ NonEmptyCalls # {} => call.ret = collected[Len(collected)]
                /\ NonEmptyCalls = {} => IsEmptyResult(call.ret)
                /\ (NonEmptyCalls = {} /\ HandledCalls = {} /\ maxRetry > 0) =>
                     Len(collected) = maxRetry )

\* the sensor answered with empty data and then with a reading, which was returned
C24_Witness ==
  /\ CollectReturned
  /\ Len(collected) = 2 /\ maxRetry = 3
  /\ IsEmptyResult(collected[1])
  /\ call.ret = [t |-> "dict", v |-> [k \in {"temperature"} |-> 21]]

SmartRunning == entry = "run_smart_sensor" /\ pc # "run_smart_sensor"

\* C25: run_smart_sensor returns only for iterMax > 0 and then has published
\* exactly iterMax readings; with iterMax = 0 it never returns; every reading
\* goes to the topic 'temperature' and is an integer in 0..30, and every
\* publish is followed by a sleep of inDelay clamped to 1..3600 seconds
C25_PublishesIterMax ==
  SmartRunning =>
    /\ pc = "returned" => (iterMax > 0 /\ Len(published) = iterMax)
    /\ \A i \in DOMAIN published :
         published[i][1] = "temperature" /\ published[i][2] \in 0..30
    /\ Len(slept) = (IF pc = "sleep" THEN Len(published) - 1 ELSE Len(published))
    /\ \A i \in DOMAIN slept :
         slept[i] = (IF inDelay < 1 THEN 1 ELSE IF inDelay > 3600 THEN 3600 ELSE inDelay)

\* the same without the case iterMax = 0
C25_PublishesIterMaxPositive ==
  (SmartRunning /\ iterMax # 0) =>
    /\ pc = "returned" => (iterMax > 0 /\ Len(published) = iterMax)
    /\ \A i \in DOMAIN published :
         published[i][1] = "temperature" /\ published[i][2] \in 0..30
    /\ Len(slept) = (IF pc = "sleep" THEN Len(published) - 1 ELSE Len(published))
    /\ \A i \in DOMAIN slept :
         slept[i] = (IF inDelay < 1 THEN 1 ELSE IF inDelay > 3600 THEN 3600 ELSE inDelay)

\* a run for iterMax > 0 comes to its end
C25_PositiveTerminates == [](SmartRunning /\ iterMax > 0 => <>(pc = "returned"))

=============================================================================
